---- MODULE Spec2Model ----
(***************************************************************************)
(* Model of the ResourceSlot sandboxer (resource_slot/src/sandbox.rs):     *)
(* the registry of sandboxes behind a tokio RwLock, the per-sandbox tokio  *)
(* Mutex, the container map of each sandbox and the extraction of          *)
(* ResourceInfo from sandbox and container documents.                      *)
(***************************************************************************)
EXTENDS Integers, Sequences, FiniteSets, TLC

(***************************************************************************)
(* Option<T>: None is the empty sequence, Some(x) the one-element one.     *)
(***************************************************************************)
None == << >>
Some(x) == << x >>
IsSome(o) == o # None
Unwrap(o) == o[1]

(***************************************************************************)
(* Bounds of the model.                                                    *)
(***************************************************************************)
NumTasks == 2
MaxAnnotations == 2
MaxClock == 1
MaxFired == 2

(***************************************************************************)
(* Fixed-width integers.  i64 and u64 are four 16-bit limbs, u32 is two,   *)
(* least significant limb first; an i64 is in two's complement.            *)
(***************************************************************************)
LimbBase == 2 ^ 16
Limbs64 == 4
Limbs32 == 2

LimbZero(n) == [i \in 1..n |-> 0]
I64(n) == [i \in 1..Limbs64 |-> IF i = 1 THEN n ELSE 0]
I64MinusOne == [i \in 1..Limbs64 |-> LimbBase - 1]
I64Neg(v) == v[Limbs64] >= LimbBase \div 2

\* `limit as u64` on an i64: the same 64 bits, read as unsigned.
AsU64(v) == v
\* `limit as u32` on an i64: the low 32 bits.
AsU32(v) == SubSeq(v, 1, Limbs32)

RECURSIVE LimbMulAdd(_, _, _)
\* l * m + c on limbs: << the limbs of the result, the carry out >>
LimbMulAdd(l, m, c) ==
    IF l = << >> THEN << << >>, c >>
    ELSE LET v == Head(l) * m + c
             rest == LimbMulAdd(Tail(l), m, v \div LimbBase)
         IN  << << v % LimbBase >> \o rest[1], rest[2] >>

(***************************************************************************)
(* f64 values are rationals << numerator, denominator >> in lowest terms;  *)
(* a zero denominator is +inf (1/0), -inf (-1/0) or NaN (0/0).             *)
(***************************************************************************)
Abs(n) == IF n < 0 THEN -n ELSE n
Sgn(n) == IF n < 0 THEN -1 ELSE IF n > 0 THEN 1 ELSE 0

RECURSIVE Gcd(_, _)
Gcd(a, b) == IF b = 0 THEN a ELSE Gcd(b, a % b)

F64Div(n, d) ==
    IF d = 0 THEN << Sgn(n), 0 >>
    ELSE LET g == Gcd(Abs(n), Abs(d))
         IN  << (Sgn(d) * n) \div g, Abs(d) \div g >>

(***************************************************************************)
(* str::parse.  A string is a sequence of one-character strings.           *)
(***************************************************************************)
Digits == << "0", "1", "2", "3", "4", "5", "6", "7", "8", "9" >>
IsDigit(c) == \E i \in 1..10 : Digits[i] = c
DigitVal(c) == (CHOOSE i \in 1..10 : Digits[i] = c) - 1

RECURSIVE ParseDigits(_, _)
ParseDigits(s, acc) ==
    IF s = << >> THEN Some(acc)
    ELSE IF ~IsDigit(Head(s)) THEN None
    ELSE LET r == LimbMulAdd(acc, 10, DigitVal(Head(s)))
         IN  IF r[2] # 0 THEN None ELSE ParseDigits(Tail(s), r[1])

\* parse::<uN>(): an optional '+', then at least one digit, no overflow
ParseUnsigned(s, n) ==
    LET body == IF s # << >> /\ Head(s) = "+" THEN Tail(s) ELSE s
    IN  IF body = << >> THEN None ELSE ParseDigits(body, LimbZero(n))

parse_u64(s) == ParseUnsigned(s, Limbs64)
parse_u32(s) == ParseUnsigned(s, Limbs32)

RECURSIVE DecVal(_, _)
DecVal(s, acc) == IF s = << >> THEN acc ELSE DecVal(Tail(s), acc * 10 + DigitVal(Head(s)))

RECURSIVE Pow10(_)
Pow10(n) == IF n = 0 THEN 1 ELSE 10 * Pow10(n - 1)

\* parse::<f64>() on decimal literals: [+-] digits [. digits], one digit at least
parse_f64(s) ==
    LET signed == s # << >> /\ Head(s) \in {"+", "-"}
        neg == s # << >> /\ Head(s) = "-"
        body == IF signed THEN Tail(s) ELSE s
        dots == {i \in 1..Len(body) : body[i] = "."}
        dot == IF dots = {} THEN Len(body) + 1 ELSE CHOOSE i \in dots : \A j \in dots : i <= j
        int == SubSeq(body, 1, dot - 1)
        frac == SubSeq(body, dot + 1, Len(body))
        all == int \o frac
    IN  IF all = << >> \/ \E i \in 1..Len(all) : ~IsDigit(all[i]) THEN None
        ELSE Some(F64Div((IF neg THEN -1 ELSE 1) * DecVal(all, 0), Pow10(Len(frac))))

(***************************************************************************)
(* ResourceInfo and its extraction.                                        *)
(***************************************************************************)
ResourceInfoDefault ==
    [cpu_limit |-> None, cpu_request |-> None, memory_limit |-> None,
     memory_request |-> None, pid_limit |-> None, storage_limit |-> None,
     network_bandwidth |-> None]

\* annotations.get(key)
AnnGet(annotations, key) ==
    IF key \in DOMAIN annotations THEN Some(annotations[key]) ELSE None

\* if let Some(v) = annotations.get(key) { if let Ok(x) = v.parse::<f64>() { .. } }
GetF64(annotations, key) ==
    IF IsSome(AnnGet(annotations, key)) THEN parse_f64(Unwrap(AnnGet(annotations, key))) ELSE None
GetU64(annotations, key) ==
    IF IsSome(AnnGet(annotations, key)) THEN parse_u64(Unwrap(AnnGet(annotations, key))) ELSE None
GetU32(annotations, key) ==
    IF IsSome(AnnGet(annotations, key)) THEN parse_u32(Unwrap(AnnGet(annotations, key))) ELSE None

\* SetIfOk with .unwrap_or_default() on the parse: zero when there is no parsed x
SetOrDefault(parsed, old) == IF IsSome(parsed) THEN parsed ELSE Some(LimbZero(Limbs64))

\* info.field = Some(x) when there is a parsed x, else the field is left as it is
SetIfOk(parsed, old) == IF IsSome(parsed) THEN parsed ELSE old

\* FromAnnotations with the PID limit read from resources.requests.pid, and no memory request
FromAnnotationsFourKeys(info, annotations) ==
    [info EXCEPT
        !.cpu_limit = SetIfOk(GetF64(annotations, "resources.limits.cpu"), @),
        !.cpu_request = SetIfOk(GetF64(annotations, "resources.requests.cpu"), @),
        !.memory_limit = SetIfOk(GetU64(annotations, "resources.limits.memory"), @),
        !.pid_limit = SetIfOk(GetU32(annotations, "resources.requests.pid"), @)]

\* the first block of from_sandbox_data: the annotations of the spec
FromAnnotations(info, annotations) ==
    [info EXCEPT
        !.cpu_limit = SetIfOk(GetF64(annotations, "resources.limits.cpu"), @),
        !.cpu_request = SetIfOk(GetF64(annotations, "resources.requests.cpu"), @),
        !.memory_limit = SetIfOk(GetU64(annotations, "resources.limits.memory"), @),
        !.memory_request = SetIfOk(GetU64(annotations, "resources.requests.memory"), @),
        !.pid_limit = SetIfOk(GetU32(annotations, "resources.limits.pid"), @)]

\* FromLinuxResources with the memory limit taken for the storage limit as well
FromLinuxResourcesStorage(info, linux) ==
    IF ~IsSome(linux) \/ ~IsSome(Unwrap(linux).resources) THEN info
    ELSE LET resources == Unwrap(Unwrap(linux).resources)
             memory == resources.memory
             pids == resources.pids
         IN  [info EXCEPT
                 !.memory_limit =
                     IF IsSome(memory) /\ IsSome(Unwrap(memory).limit)
                     THEN Some(AsU64(Unwrap(Unwrap(memory).limit))) ELSE @,
                 !.storage_limit =
                     IF IsSome(memory) /\ IsSome(Unwrap(memory).limit)
                     THEN Some(AsU64(Unwrap(Unwrap(memory).limit))) ELSE @,
                 !.pid_limit =
                     IF IsSome(pids) THEN Some(AsU32(Unwrap(pids).limit)) ELSE @]

\* the block shared by from_sandbox_data and from_container_data: spec.linux.resources
FromLinuxResources(info, linux) ==
    IF ~IsSome(linux) \/ ~IsSome(Unwrap(linux).resources) THEN info
    ELSE LET resources == Unwrap(Unwrap(linux).resources)
             cpu == resources.cpu
             memory == resources.memory
             pids == resources.pids
         IN  [info EXCEPT
                 !.cpu_request =
                     IF IsSome(cpu) /\ IsSome(Unwrap(cpu).shares)
                     THEN Some(F64Div(Unwrap(Unwrap(cpu).shares), 1024)) ELSE @,
                 !.cpu_limit =
                     IF IsSome(cpu) /\ IsSome(Unwrap(cpu).quota) /\ IsSome(Unwrap(cpu).period)
                     THEN Some(F64Div(Unwrap(Unwrap(cpu).quota), Unwrap(Unwrap(cpu).period)))
                     ELSE @,
                 !.memory_limit =
                     IF IsSome(memory) /\ IsSome(Unwrap(memory).limit)
                     THEN Some(AsU64(Unwrap(Unwrap(memory).limit))) ELSE @,
                 !.pid_limit =
                     IF IsSome(pids) THEN Some(AsU32(Unwrap(pids).limit)) ELSE @]

from_sandbox_data(data) ==
    IF ~IsSome(data.spec) THEN ResourceInfoDefault
    ELSE FromLinuxResources(
             FromAnnotations(ResourceInfoDefault, Unwrap(data.spec).annotations),
             Unwrap(data.spec).linux)

\* from_container_data that reads the annotations as from_sandbox_data does
from_container_data_annotated(data) ==
    IF ~IsSome(data.spec) THEN ResourceInfoDefault
    ELSE FromLinuxResources(
             FromAnnotations(ResourceInfoDefault, Unwrap(data.spec).annotations),
             Unwrap(data.spec).linux)

from_container_data(data) ==
    IF ~IsSome(data.spec) THEN ResourceInfoDefault
    ELSE FromLinuxResources(ResourceInfoDefault, Unwrap(data.spec).linux)

(***************************************************************************)
(* Documents: SandboxData and ContainerData, as far as the code reads them. *)
(***************************************************************************)
Str2 == << "2" >>
StrHalf == << "0", ".", "5" >>
StrMinus1 == << "-", "1" >>
StrX == << "x" >>
\* 4294967296 = 2^32: a u64, not a u32
StrBig == << "4", "2", "9", "4", "9", "6", "7", "2", "9", "6" >>

FloatKeys == {"resources.limits.cpu", "resources.requests.cpu"}
IntKeys == {"resources.limits.memory", "resources.requests.memory", "resources.limits.pid"}
OtherKeys == {"resources.requests.pid", "io.kubernetes.cri.sandbox-name"}
AnnotationKeys == FloatKeys \cup IntKeys \cup OtherKeys

AnnotationValues == {Str2, StrHalf, StrMinus1, StrX, StrBig}
AnnValuesFor(k) ==
    IF k \in FloatKeys THEN {Str2, StrHalf, StrX}
    ELSE IF k \in IntKeys THEN {Str2, StrMinus1, StrBig}
    ELSE {Str2, StrX}

AnnotationMaps ==
    UNION { {f \in [S -> AnnotationValues] : \A k \in S : f[k] \in AnnValuesFor(k)} :
            S \in {S \in SUBSET AnnotationKeys : Cardinality(S) <= MaxAnnotations} }

I64Big == [i \in 1..Limbs64 |-> IF i \in {1, 3} THEN 1 ELSE 0]

LinuxCpus ==
    [shares : {None, Some(512)}, quota : {None, Some(100000)}, period : {None, Some(50000)}]
LinuxMemories == [limit : {None, Some(I64(1024)), Some(I64MinusOne)}]
LinuxPidss == [limit : {I64(100), I64Big}]
LinuxResourcess ==
    [cpu : {None} \cup {Some(c) : c \in LinuxCpus},
     memory : {None} \cup {Some(m) : m \in LinuxMemories},
     pids : {None} \cup {Some(p) : p \in LinuxPidss}]
Linuxes == [resources : {None} \cup {Some(r) : r \in LinuxResourcess}]
Specs == [annotations : AnnotationMaps, linux : {None} \cup {Some(l) : l \in Linuxes}]

\* every SandboxData of the model
AllSandboxData == [spec : {None} \cup {Some(s) : s \in Specs}]

NoAnnotations == [k \in {} |-> Str2]
Resources(cpu, memory, pids) == Some([resources |-> Some([cpu |-> cpu, memory |-> memory, pids |-> pids])])

\* the documents of the registry model: one with annotations only, one with both
SandboxDocA ==
    [spec |-> Some([annotations |-> [k \in {"resources.limits.cpu"} |-> Str2], linux |-> None])]
SandboxDocB ==
    [spec |-> Some([annotations |-> [k \in {"resources.limits.memory"} |-> Str2],
                    linux |-> Resources(Some([shares |-> Some(512), quota |-> None, period |-> None]),
                                        Some([limit |-> Some(I64(1024))]), None)])]
SandboxDocs == {SandboxDocA, SandboxDocB}

ContainerDocA == [spec |-> None]
ContainerDocB ==
    [spec |-> Some([annotations |-> NoAnnotations,
                    linux |-> Resources(None, None, Some([limit |-> I64(100)]))])]
ContainerDocs == {ContainerDocA, ContainerDocB}

(***************************************************************************)
(* The state.                                                              *)
(***************************************************************************)
Tasks == 1..NumTasks
NoTask == 0
SandboxIds == {"a", "b"}
ContainerIds == {"c1", "c2"}
\* an Arc<Mutex<ResourceSlotSandbox>>: the registry holds one per id, a task one at most,
\* and create allocates while the entry it replaces is still alive
Refs == 1..(Cardinality(SandboxIds) + NumTasks + 1)
NoRef == 0

VARIABLES
    registry,   \* sandboxes: id -> Ref, NoRef when the map has no such key
    heap,       \* Ref -> None (not allocated) or Some(ResourceSlotSandbox)
    mutex,      \* Ref -> the task holding the sandbox's Mutex, or NoTask
    readers,    \* the tasks holding a read guard of the registry's RwLock
    writer,     \* the task holding its write guard, or NoTask
    now,        \* OffsetDateTime::now_utc()
    pc,         \* task -> where it is
    op,         \* task -> the operation it runs or ran last
    res,        \* task -> the result of its last operation
    handle,     \* task -> the Arc it holds, or NoRef
    waitq       \* the tasks queued on a lock that was not free when they asked, first come first

vars == << registry, heap, mutex, readers, writer, now, pc, op, res, handle, waitq >>

NoOp == [name |-> "none", id |-> "a", data |-> None]

Init ==
    /\ registry = [i \in SandboxIds |-> NoRef]
    /\ heap = [r \in Refs |-> None]
    /\ mutex = [r \in Refs |-> NoTask]
    /\ readers = {}
    /\ writer = NoTask
    /\ now = 0
    /\ pc = [t \in Tasks |-> "idle"]
    /\ op = [t \in Tasks |-> NoOp]
    /\ res = [t \in Tasks |-> "none"]
    /\ handle = [t \in Tasks |-> NoRef]
    /\ waitq = << >>

\* the sandbox behind a Ref
Sandbox(r) == Unwrap(heap[r])

\* dropping an Arc: a sandbox nothing refers to any more is freed
Collect(h, reg, hnd) ==
    [r \in Refs |->
        IF (\E i \in SandboxIds : reg[i] = r) \/ (\E t \in Tasks : hnd[t] = r)
        THEN h[r] ELSE None]

FreeRef == CHOOSE r \in Refs : heap[r] = None /\ \A q \in Refs : heap[q] = None => r <= q

(***************************************************************************)
(* tokio::sync::RwLock and tokio::sync::Mutex hand their lock over first   *)
(* come first served: a task that finds the lock taken, or tasks queued    *)
(* for it, queues up, and a lock that is released goes to the head of the  *)
(* queue (several readers at the head share it).                           *)
(***************************************************************************)
WriteWaitPcs == {"create_write", "delete_write"}
ReadWaitPcs == {"sandbox_read"}
LockWaitPcs == {"sandbox_lock", "have_handle"}
WaitPcs == WriteWaitPcs \cup ReadWaitPcs \cup LockWaitPcs

InQueue(t) == \E i \in 1..Len(waitq) : waitq[i] = t
\* the tasks queued before t, all the queued tasks when t is not queued
Ahead(t) ==
    IF InQueue(t)
    THEN {waitq[i] : i \in 1..((CHOOSE j \in 1..Len(waitq) : waitq[j] = t) - 1)}
    ELSE {waitq[i] : i \in 1..Len(waitq)}
\* t leaves the queue
Leave(t) == SelectSeq(waitq, LAMBDA u : u # t)

\* write().await is ready: no guard is held and nobody is queued before t
CanWrite(t) ==
    /\ writer = NoTask /\ readers = {}
    /\ \A u \in Ahead(t) : pc[u] \notin WriteWaitPcs \cup ReadWaitPcs
\* read().await is ready: no write guard is held and no writer is queued before t
CanRead(t) ==
    /\ writer = NoTask
    /\ \A u \in Ahead(t) : pc[u] \notin WriteWaitPcs
\* lock().await is ready: the Mutex is free and nobody is queued for it before t
CanLock(t) ==
    /\ mutex[handle[t]] = NoTask
    /\ \A u \in Ahead(t) : ~(pc[u] \in LockWaitPcs /\ handle[u] = handle[t])

CanAcquire(t) ==
    IF pc[t] \in WriteWaitPcs THEN CanWrite(t)
    ELSE IF pc[t] \in ReadWaitPcs THEN CanRead(t)
    ELSE CanLock(t)

\* the lock that t asks for is not ready: t queues up and is suspended
Enqueue(t) ==
    /\ pc[t] \in WaitPcs
    /\ ~InQueue(t)
    /\ ~CanAcquire(t)
    /\ waitq' = Append(waitq, t)
    /\ UNCHANGED << registry, heap, mutex, readers, writer, now, pc, op, res, handle >>

(***************************************************************************)
(* Sandboxer::create                                                       *)
(***************************************************************************)
\* NewSandbox with the status of a started sandbox
NewSandboxRunning(id, data) ==
    [id |-> id, data |-> data, status |-> "Running",
     exit_signal |-> [exited |-> FALSE, fired |-> 0],
     containers |-> [c \in {} |-> None],
     resource_info |-> from_sandbox_data(data), started_at |-> None]

\* the ResourceSlotSandbox that create builds
NewSandbox(id, data) ==
    [id |-> id, data |-> data, status |-> "Created",
     exit_signal |-> [exited |-> FALSE, fired |-> 0],
     containers |-> [c \in {} |-> None],
     resource_info |-> from_sandbox_data(data), started_at |-> None]

\* create is called: the sandbox is built, the task waits for the write lock
CreateCall(t, id, data) ==
    /\ pc[t] = "idle"
    /\ pc' = [pc EXCEPT ![t] = "create_write"]
    /\ op' = [op EXCEPT ![t] = [name |-> "create", id |-> id, data |-> Some(data)]]
    /\ res' = [res EXCEPT ![t] = "none"]
    /\ UNCHANGED << registry, heap, mutex, readers, writer, now, handle, waitq >>

\* self.sandboxes.write().await
CreateWrite(t) ==
    /\ pc[t] = "create_write"
    /\ CanWrite(t)
    /\ writer' = t
    /\ waitq' = Leave(t)
    /\ pc' = [pc EXCEPT ![t] = "create_insert"]
    /\ UNCHANGED << registry, heap, mutex, readers, now, op, res, handle >>

\* sandboxes.insert(id, Arc::new(Mutex::new(sandbox))); the guard is dropped; Ok(())
CreateInsert(t) ==
    /\ pc[t] = "create_insert"
    /\ LET r == FreeRef
           reg == [registry EXCEPT ![op[t].id] = r]
       IN  /\ registry' = reg
           /\ heap' = Collect([heap EXCEPT ![r] = Some(NewSandbox(op[t].id, Unwrap(op[t].data)))],
                              reg, handle)
    /\ writer' = NoTask
    /\ pc' = [pc EXCEPT ![t] = "idle"]
    /\ op' = [op EXCEPT ![t] = NoOp]
    /\ res' = [res EXCEPT ![t] = "Ok"]
    /\ UNCHANGED << mutex, readers, now, handle, waitq >>

(***************************************************************************)
(* Sandboxer::delete                                                       *)
(***************************************************************************)
DeleteCall(t, id) ==
    /\ pc[t] = "idle"
    /\ pc' = [pc EXCEPT ![t] = "delete_write"]
    /\ op' = [op EXCEPT ![t] = [name |-> "delete", id |-> id, data |-> None]]
    /\ res' = [res EXCEPT ![t] = "none"]
    /\ UNCHANGED << registry, heap, mutex, readers, writer, now, handle, waitq >>

\* self.sandboxes.write().await
DeleteWrite(t) ==
    /\ pc[t] = "delete_write"
    /\ CanWrite(t)
    /\ writer' = t
    /\ waitq' = Leave(t)
    /\ pc' = [pc EXCEPT ![t] = "delete_remove"]
    /\ UNCHANGED << registry, heap, mutex, readers, now, op, res, handle >>

\* DeleteRemove with .remove(id).ok_or_else(|| Error::NotFound(id))?
DeleteRemoveStrict(t) ==
    /\ pc[t] = "delete_remove"
    /\ LET reg == [registry EXCEPT ![op[t].id] = NoRef]
       IN  /\ registry' = reg
           /\ heap' = Collect(heap, reg, handle)
    /\ writer' = NoTask
    /\ pc' = [pc EXCEPT ![t] = "idle"]
    /\ op' = [op EXCEPT ![t] = NoOp]
    /\ res' = [res EXCEPT ![t] = IF registry[op[t].id] = NoRef THEN "NotFound" ELSE "Ok"]
    /\ UNCHANGED << mutex, readers, now, handle, waitq >>

\* .remove(id); the guard is dropped; Ok(())
DeleteRemove(t) ==
    /\ pc[t] = "delete_remove"
    /\ LET reg == [registry EXCEPT ![op[t].id] = NoRef]
       IN  /\ registry' = reg
           /\ heap' = Collect(heap, reg, handle)
    /\ writer' = NoTask
    /\ pc' = [pc EXCEPT ![t] = "idle"]
    /\ op' = [op EXCEPT ![t] = NoOp]
    /\ res' = [res EXCEPT ![t] = "Ok"]
    /\ UNCHANGED << mutex, readers, now, handle, waitq >>

(***************************************************************************)
(* Sandboxer::sandbox, and its callers start, update, stop; a call of      *)
(* sandbox from outside is "get".                                          *)
(***************************************************************************)
SandboxCall(t, name, id, data) ==
    /\ pc[t] = "idle"
    /\ pc' = [pc EXCEPT ![t] = "sandbox_read"]
    /\ op' = [op EXCEPT ![t] = [name |-> name, id |-> id, data |-> data]]
    /\ res' = [res EXCEPT ![t] = "none"]
    /\ UNCHANGED << registry, heap, mutex, readers, writer, now, handle, waitq >>

StartCall(t, id) == SandboxCall(t, "start", id, None)
UpdateCall(t, id, data) == SandboxCall(t, "update", id, Some(data))
StopCall(t, id) == SandboxCall(t, "stop", id, None)
GetCall(t, id) == SandboxCall(t, "get", id, None)

\* self.sandboxes.read().await
SandboxRead(t) ==
    /\ pc[t] = "sandbox_read"
    /\ CanRead(t)
    /\ readers' = readers \cup {t}
    /\ waitq' = Leave(t)
    /\ pc' = [pc EXCEPT ![t] = "sandbox_get"]
    /\ UNCHANGED << registry, heap, mutex, writer, now, op, res, handle >>

\* SandboxGet with the read guard kept by the caller when the sandbox is found
SandboxGetKeepsGuard(t) ==
    /\ pc[t] = "sandbox_get"
    /\ IF registry[op[t].id] = NoRef
       THEN /\ readers' = readers \ {t}
            /\ pc' = [pc EXCEPT ![t] = "idle"]
            /\ op' = [op EXCEPT ![t] = NoOp]
            /\ res' = [res EXCEPT ![t] = "NotFound"]
            /\ handle' = handle
       ELSE /\ readers' = readers
            /\ handle' = [handle EXCEPT ![t] = registry[op[t].id]]
            /\ IF op[t].name = "get"
               THEN /\ pc' = [pc EXCEPT ![t] = "have_handle"]
                    /\ op' = [op EXCEPT ![t] = NoOp]
                    /\ res' = [res EXCEPT ![t] = "Ok"]
               ELSE /\ pc' = [pc EXCEPT ![t] = "sandbox_lock"]
                    /\ op' = op
                    /\ res' = res
    /\ UNCHANGED << registry, heap, mutex, writer, now, waitq >>

\* .get(id).ok_or_else(|| Error::NotFound(id))?.clone(); the read guard is dropped
SandboxGet(t) ==
    /\ pc[t] = "sandbox_get"
    /\ readers' = readers \ {t}
    /\ IF registry[op[t].id] = NoRef
       THEN /\ pc' = [pc EXCEPT ![t] = "idle"]
            /\ op' = [op EXCEPT ![t] = NoOp]
            /\ res' = [res EXCEPT ![t] = "NotFound"]
            /\ handle' = handle
       ELSE /\ handle' = [handle EXCEPT ![t] = registry[op[t].id]]
            /\ IF op[t].name = "get"
               THEN /\ pc' = [pc EXCEPT ![t] = "have_handle"]
                    /\ op' = [op EXCEPT ![t] = NoOp]
                    /\ res' = [res EXCEPT ![t] = "Ok"]
               ELSE /\ pc' = [pc EXCEPT ![t] = "sandbox_lock"]
                    /\ op' = op
                    /\ res' = res
    /\ UNCHANGED << registry, heap, mutex, writer, now, waitq >>

\* sandbox.lock().await in start, update and stop
SandboxLock(t) ==
    /\ pc[t] = "sandbox_lock"
    /\ CanLock(t)
    /\ mutex' = [mutex EXCEPT ![handle[t]] = t]
    /\ waitq' = Leave(t)
    /\ pc' = [pc EXCEPT ![t] = op[t].name]
    /\ UNCHANGED << registry, heap, readers, writer, now, op, res, handle >>

\* Return with a MutexGuard that is leaked (mem::forget) and not dropped
ReturnKeepsMutex(t, h) ==
    /\ handle' = [handle EXCEPT ![t] = NoRef]
    /\ heap' = Collect(h, registry, handle')
    /\ pc' = [pc EXCEPT ![t] = "idle"]
    /\ op' = [op EXCEPT ![t] = NoOp]
    /\ res' = [res EXCEPT ![t] = "Ok"]
    /\ UNCHANGED << registry, mutex, readers, writer, now, waitq >>

\* the end of start, update and stop: the MutexGuard and then the Arc are dropped, Ok(())
Return(t, h) ==
    /\ mutex' = [mutex EXCEPT ![handle[t]] = NoTask]
    /\ handle' = [handle EXCEPT ![t] = NoRef]
    /\ heap' = Collect(h, registry, handle')
    /\ pc' = [pc EXCEPT ![t] = "idle"]
    /\ op' = [op EXCEPT ![t] = NoOp]
    /\ res' = [res EXCEPT ![t] = "Ok"]
    /\ UNCHANGED << registry, readers, writer, now, waitq >>

\* the body of start
start(sandbox) ==
    [sandbox EXCEPT !.status = "Running", !.started_at = Some(now)]

Start(t) ==
    /\ pc[t] = "start"
    /\ Return(t, [heap EXCEPT ![handle[t]] = Some(start(Sandbox(handle[t])))])

\* update that keeps a field of the old resource_info where the new document gives none
update_merge(sandbox, data) ==
    [sandbox EXCEPT
        !.resource_info =
            [f \in DOMAIN @ |->
                IF IsSome(from_sandbox_data(data)[f]) THEN from_sandbox_data(data)[f] ELSE @[f]],
        !.data = data]

\* the body of update
update(sandbox, data) ==
    [sandbox EXCEPT !.resource_info = from_sandbox_data(data), !.data = data]

Update(t) ==
    /\ pc[t] = "update"
    /\ Return(t, [heap EXCEPT ![handle[t]] = Some(update(Sandbox(handle[t]), Unwrap(op[t].data)))])

\* ExitSignal::signal: the signal is set, the waiters are woken
signal(s) ==
    [exited |-> TRUE, fired |-> IF s.fired < MaxFired THEN s.fired + 1 ELSE s.fired]

\* the body of stop
stop(sandbox) ==
    [sandbox EXCEPT !.status = "Stopped", !.exit_signal = signal(@)]

Stop(t) ==
    /\ pc[t] = "stop"
    /\ Return(t, [heap EXCEPT ![handle[t]] = Some(stop(Sandbox(handle[t])))])

\* OffsetDateTime::now_utc() advances
Tick ==
    /\ now < MaxClock
    /\ now' = now + 1
    /\ UNCHANGED << registry, heap, mutex, readers, writer, pc, op, res, handle, waitq >>

(***************************************************************************)
(* The Sandbox trait, called by the holder of a handle that "get"          *)
(* returned, with the sandbox's Mutex locked.                              *)
(***************************************************************************)
\* handle.lock().await
HandleLock(t) ==
    /\ pc[t] = "have_handle"
    /\ CanLock(t)
    /\ mutex' = [mutex EXCEPT ![handle[t]] = t]
    /\ waitq' = Leave(t)
    /\ pc' = [pc EXCEPT ![t] = "locked"]
    /\ UNCHANGED << registry, heap, readers, writer, now, op, res, handle >>

\* the MutexGuard is dropped
HandleUnlock(t) ==
    /\ pc[t] = "locked"
    /\ mutex' = [mutex EXCEPT ![handle[t]] = NoTask]
    /\ pc' = [pc EXCEPT ![t] = "have_handle"]
    /\ UNCHANGED << registry, heap, readers, writer, now, op, res, handle, waitq >>

\* the Arc is dropped, by a holder that is not waiting for its lock
HandleDrop(t) ==
    /\ pc[t] = "have_handle"
    /\ ~InQueue(t)
    /\ handle' = [handle EXCEPT ![t] = NoRef]
    /\ heap' = Collect(heap, registry, handle')
    /\ pc' = [pc EXCEPT ![t] = "idle"]
    /\ UNCHANGED << registry, mutex, readers, writer, now, op, res, waitq >>

\* ContainerOp on a container map that all the sandboxes share
ContainerOpShared(t, out) ==
    /\ pc[t] = "locked"
    /\ heap' = [r \in Refs |->
                   IF r = handle[t] THEN Some(out[2])
                   ELSE IF IsSome(heap[r])
                        THEN Some([Sandbox(r) EXCEPT !.containers = out[2].containers])
                        ELSE None]
    /\ res' = [res EXCEPT ![t] = out[1]]
    /\ UNCHANGED << registry, mutex, readers, writer, now, pc, op, handle, waitq >>

\* a call of a container method on the locked sandbox: << its result, the sandbox after it >>
ContainerOp(t, out) ==
    /\ pc[t] = "locked"
    /\ heap' = [heap EXCEPT ![handle[t]] = Some(out[2])]
    /\ res' = [res EXCEPT ![t] = out[1]]
    /\ UNCHANGED << registry, mutex, readers, writer, now, pc, op, handle, waitq >>

NewContainer(data) == [data |-> data, resource_info |-> from_container_data(data)]

\* HashMap::insert
MapInsert(m, k, v) == [x \in DOMAIN m \cup {k} |-> IF x = k THEN v ELSE m[x]]
\* HashMap::remove
MapRemove(m, k) == [x \in DOMAIN m \ {k} |-> m[x]]

container(sandbox, cid) ==
    << IF cid \in DOMAIN sandbox.containers THEN "Ok" ELSE "NotFound", sandbox >>

\* append_container that builds the map anew from the container it appends
append_container_replace(sandbox, cid, data) ==
    << "Ok", [sandbox EXCEPT !.containers = MapInsert([c \in {} |-> None], cid, NewContainer(data))] >>

append_container(sandbox, cid, data) ==
    << "Ok", [sandbox EXCEPT !.containers = MapInsert(@, cid, NewContainer(data))] >>

\* update_container that inserts the container when it is not there
update_container_upsert(sandbox, cid, data) ==
    << "Ok", [sandbox EXCEPT !.containers = MapInsert(@, cid, NewContainer(data))] >>

\* update_container that replaces the data and keeps the resource_info it had
update_container_keeps_info(sandbox, cid, data) ==
    IF cid \notin DOMAIN sandbox.containers THEN << "NotFound", sandbox >>
    ELSE << "Ok", [sandbox EXCEPT !.containers[cid].data = data] >>

update_container(sandbox, cid, data) ==
    IF cid \notin DOMAIN sandbox.containers THEN << "NotFound", sandbox >>
    ELSE << "Ok", [sandbox EXCEPT !.containers = MapInsert(@, cid, NewContainer(data))] >>

\* remove_container that clears the map (HashMap::clear) when the id is there
remove_container_clears(sandbox, cid) ==
    IF cid \notin DOMAIN sandbox.containers THEN << "NotFound", sandbox >>
    ELSE << "Ok", [sandbox EXCEPT !.containers = [c \in {} |-> None]] >>

remove_container(sandbox, cid) ==
    IF cid \notin DOMAIN sandbox.containers THEN << "NotFound", sandbox >>
    ELSE << "Ok", [sandbox EXCEPT !.containers = MapRemove(@, cid)] >>

GetContainer(t, cid) ==
    ContainerOp(t, container(Sandbox(handle[t]), cid))
AppendContainer(t, cid, data) ==
    ContainerOp(t, append_container(Sandbox(handle[t]), cid, data))
UpdateContainer(t, cid, data) ==
    ContainerOp(t, update_container(Sandbox(handle[t]), cid, data))
RemoveContainer(t, cid) ==
    ContainerOp(t, remove_container(Sandbox(handle[t]), cid))

(***************************************************************************)
(* Spec: the tasks run every operation of the registry concurrently on one *)
(* sandbox id, with one document; a task that got a handle locks it, as    *)
(* the callers of the container methods do.                                *)
(***************************************************************************)
SpecIds == {"a"}
SpecDocs == {SandboxDocA}

Next ==
    \/ \E t \in Tasks, id \in SpecIds, data \in SpecDocs : CreateCall(t, id, data)
    \/ \E t \in Tasks : CreateWrite(t)
    \/ \E t \in Tasks : CreateInsert(t)
    \/ \E t \in Tasks, id \in SpecIds : DeleteCall(t, id)
    \/ \E t \in Tasks : DeleteWrite(t)
    \/ \E t \in Tasks : DeleteRemove(t)
    \/ \E t \in Tasks, id \in SpecIds : StartCall(t, id)
    \/ \E t \in Tasks, id \in SpecIds, data \in SpecDocs : UpdateCall(t, id, data)
    \/ \E t \in Tasks, id \in SpecIds : StopCall(t, id)
    \/ \E t \in Tasks, id \in SpecIds : GetCall(t, id)
    \/ \E t \in Tasks : SandboxRead(t)
    \/ \E t \in Tasks : SandboxGet(t)
    \/ \E t \in Tasks : SandboxLock(t)
    \/ \E t \in Tasks : Start(t)
    \/ \E t \in Tasks : Update(t)
    \/ \E t \in Tasks : Stop(t)
    \/ \E t \in Tasks : HandleLock(t)
    \/ \E t \in Tasks : HandleUnlock(t)
    \/ \E t \in Tasks : HandleDrop(t)
    \/ \E t \in Tasks : Enqueue(t)
    \/ Tick

Spec == Init /\ [][Next]_vars

(***************************************************************************)
(* SpecRegistry: one task runs every operation of the registry and of the  *)
(* Sandbox trait, on two sandbox ids, one container id and two documents   *)
(* of each kind.                                                           *)
(***************************************************************************)
RegistryCids == {"c1"}
OneTask == {CHOOSE t \in Tasks : \A u \in Tasks : t <= u}

NextRegistry ==
    \/ \E t \in OneTask, id \in SandboxIds, data \in SandboxDocs : CreateCall(t, id, data)
    \/ \E t \in OneTask : CreateWrite(t)
    \/ \E t \in OneTask : CreateInsert(t)
    \/ \E t \in OneTask, id \in SandboxIds : DeleteCall(t, id)
    \/ \E t \in OneTask : DeleteWrite(t)
    \/ \E t \in OneTask : DeleteRemove(t)
    \/ \E t \in OneTask, id \in SandboxIds : StartCall(t, id)
    \/ \E t \in OneTask, id \in SandboxIds, data \in SandboxDocs : UpdateCall(t, id, data)
    \/ \E t \in OneTask, id \in SandboxIds : StopCall(t, id)
    \/ \E t \in OneTask, id \in SandboxIds : GetCall(t, id)
    \/ \E t \in OneTask : SandboxRead(t)
    \/ \E t \in OneTask : SandboxGet(t)
    \/ \E t \in OneTask : SandboxLock(t)
    \/ \E t \in OneTask : Start(t)
    \/ \E t \in OneTask : Update(t)
    \/ \E t \in OneTask : Stop(t)
    \/ \E t \in OneTask : HandleLock(t)
    \/ \E t \in OneTask : HandleUnlock(t)
    \/ \E t \in OneTask : HandleDrop(t)
    \/ \E t \in OneTask, cid \in RegistryCids : GetContainer(t, cid)
    \/ \E t \in OneTask, cid \in RegistryCids, data \in ContainerDocs : AppendContainer(t, cid, data)
    \/ \E t \in OneTask, cid \in RegistryCids, data \in ContainerDocs : UpdateContainer(t, cid, data)
    \/ \E t \in OneTask, cid \in RegistryCids : RemoveContainer(t, cid)

SpecRegistry == Init /\ [][NextRegistry]_vars

(***************************************************************************)
(* SpecAppend: sandbox "a" exists; every task gets its handle, locks it,   *)
(* appends a container under an id of its own, unlocks and drops it.       *)
(***************************************************************************)
OwnCid(t) == "c" \o ToString(t)

InitAppend ==
    /\ registry = [i \in SandboxIds |-> IF i = "a" THEN 1 ELSE NoRef]
    /\ heap = [r \in Refs |-> IF r = 1 THEN Some(NewSandbox("a", SandboxDocA)) ELSE None]
    /\ mutex = [r \in Refs |-> NoTask]
    /\ readers = {}
    /\ writer = NoTask
    /\ now = 0
    /\ pc = [t \in Tasks |-> "idle"]
    /\ op = [t \in Tasks |-> NoOp]
    /\ res = [t \in Tasks |-> "none"]
    /\ handle = [t \in Tasks |-> NoRef]
    /\ waitq = << >>

\* the task's own container is in the sandbox it holds
Appended(t) == OwnCid(t) \in DOMAIN Sandbox(handle[t]).containers

NextAppend ==
    \/ \E t \in Tasks : res[t] = "none" /\ GetCall(t, "a")
    \/ \E t \in Tasks : SandboxRead(t)
    \/ \E t \in Tasks : SandboxGet(t)
    \/ \E t \in Tasks : pc[t] = "have_handle" /\ ~Appended(t) /\ HandleLock(t)
    \/ \E t \in Tasks : pc[t] = "have_handle" /\ ~Appended(t) /\ Enqueue(t)
    \/ \E t \in Tasks, data \in ContainerDocs :
          pc[t] = "locked" /\ ~Appended(t) /\ AppendContainer(t, OwnCid(t), data)
    \/ \E t \in Tasks : pc[t] = "locked" /\ Appended(t) /\ HandleUnlock(t)
    \/ \E t \in Tasks : pc[t] = "have_handle" /\ Appended(t) /\ HandleDrop(t)

SpecAppend == InitAppend /\ [][NextAppend]_vars

(***************************************************************************)
(* SpecExtract: create is called with any document and runs to its end.    *)
(***************************************************************************)
InitExtract ==
    /\ registry = [i \in SandboxIds |-> NoRef]
    /\ heap = [r \in Refs |-> None]
    /\ mutex = [r \in Refs |-> NoTask]
    /\ readers = {}
    /\ writer = NoTask
    /\ now = 0
    /\ pc = [t \in Tasks |-> IF t \in OneTask THEN "create_write" ELSE "idle"]
    /\ \E data \in AllSandboxData :
          op = [t \in Tasks |->
                   IF t \in OneTask THEN [name |-> "create", id |-> "a", data |-> Some(data)]
                   ELSE NoOp]
    /\ res = [t \in Tasks |-> "none"]
    /\ handle = [t \in Tasks |-> NoRef]
    /\ waitq = << >>

NextExtract ==
    \/ \E t \in OneTask : CreateWrite(t)
    \/ \E t \in OneTask : CreateInsert(t)

SpecExtract == InitExtract /\ [][NextExtract]_vars

(***************************************************************************)
(* SpecContainers: sandbox "a" exists and has the containers c1 and c2;    *)
(* one task starts, updates and stops it, gets its handle, locks it and    *)
(* calls the container methods on both container ids.                      *)
(***************************************************************************)
InitContainers ==
    /\ registry = [i \in SandboxIds |-> IF i = "a" THEN 1 ELSE NoRef]
    /\ heap = [r \in Refs |->
                  IF r = 1
                  THEN Some([NewSandbox("a", SandboxDocA) EXCEPT
                                !.containers = [c \in ContainerIds |->
                                                   IF c = "c1" THEN NewContainer(ContainerDocA)
                                                   ELSE NewContainer(ContainerDocB)]])
                  ELSE None]
    /\ mutex = [r \in Refs |-> NoTask]
    /\ readers = {}
    /\ writer = NoTask
    /\ now = 0
    /\ pc = [t \in Tasks |-> "idle"]
    /\ op = [t \in Tasks |-> NoOp]
    /\ res = [t \in Tasks |-> "none"]
    /\ handle = [t \in Tasks |-> NoRef]
    /\ waitq = << >>

NextContainers ==
    \/ \E t \in OneTask : StartCall(t, "a")
    \/ \E t \in OneTask, data \in SandboxDocs : UpdateCall(t, "a", data)
    \/ \E t \in OneTask : StopCall(t, "a")
    \/ \E t \in OneTask : GetCall(t, "a")
    \/ \E t \in OneTask : SandboxRead(t)
    \/ \E t \in OneTask : SandboxGet(t)
    \/ \E t \in OneTask : SandboxLock(t)
    \/ \E t \in OneTask : Start(t)
    \/ \E t \in OneTask : Update(t)
    \/ \E t \in OneTask : Stop(t)
    \/ \E t \in OneTask : HandleLock(t)
    \/ \E t \in OneTask : HandleUnlock(t)
    \/ \E t \in OneTask : HandleDrop(t)
    \/ \E t \in OneTask, cid \in ContainerIds : GetContainer(t, cid)
    \/ \E t \in OneTask, cid \in ContainerIds, data \in ContainerDocs : AppendContainer(t, cid, data)
    \/ \E t \in OneTask, cid \in ContainerIds, data \in ContainerDocs : UpdateContainer(t, cid, data)
    \/ \E t \in OneTask, cid \in ContainerIds : RemoveContainer(t, cid)

SpecContainers == InitContainers /\ [][NextContainers]_vars

(***************************************************************************)
(* SpecDocuments: create is called with any document; the same document is *)
(* then passed to update, and as the document of a container to            *)
(* append_container and update_container.                                  *)
(***************************************************************************)
\* the documents of the sandboxes there are
DocsInUse == {Sandbox(r).data : r \in {q \in Refs : IsSome(heap[q])}}

NextDocuments ==
    \/ \E t \in OneTask : CreateWrite(t)
    \/ \E t \in OneTask : CreateInsert(t)
    \/ \E t \in OneTask, data \in DocsInUse : UpdateCall(t, "a", data)
    \/ \E t \in OneTask : registry["a"] # NoRef /\ GetCall(t, "a")
    \/ \E t \in OneTask : SandboxRead(t)
    \/ \E t \in OneTask : SandboxGet(t)
    \/ \E t \in OneTask : SandboxLock(t)
    \/ \E t \in OneTask : Update(t)
    \/ \E t \in OneTask : HandleLock(t)
    \/ \E t \in OneTask : HandleUnlock(t)
    \/ \E t \in OneTask : HandleDrop(t)
    \/ \E t \in OneTask, data \in DocsInUse : AppendContainer(t, "c1", data)
    \/ \E t \in OneTask, data \in DocsInUse : UpdateContainer(t, "c1", data)

SpecDocuments == InitExtract /\ [][NextDocuments]_vars

(***************************************************************************)
(* SpecCancel: the tasks of Spec, whose callers may give up an operation   *)
(* that waits for a lock: the future of the operation is dropped, and with *)
(* it the Arc it holds and its place in the queue of the lock.             *)
(***************************************************************************)
\* where create, delete, sandbox, start, update and stop are suspended
SuspendPcs == {"create_write", "delete_write", "sandbox_read", "sandbox_lock"}

\* Cancel with a future that is leaked (mem::forget) and not dropped
CancelForgets(t) ==
    /\ pc[t] \in SuspendPcs
    /\ pc' = [pc EXCEPT ![t] = "idle"]
    /\ op' = [op EXCEPT ![t] = NoOp]
    /\ res' = [res EXCEPT ![t] = "Cancelled"]
    /\ UNCHANGED << registry, heap, mutex, readers, writer, now, handle, waitq >>

\* the future of the operation of task t is dropped at an .await of a lock
Cancel(t) ==
    /\ pc[t] \in SuspendPcs
    /\ waitq' = Leave(t)
    /\ handle' = [handle EXCEPT ![t] = NoRef]
    /\ heap' = Collect(heap, registry, handle')
    /\ pc' = [pc EXCEPT ![t] = "idle"]
    /\ op' = [op EXCEPT ![t] = NoOp]
    /\ res' = [res EXCEPT ![t] = "Cancelled"]
    /\ UNCHANGED << registry, mutex, readers, writer, now >>

NextCancel ==
    \/ Next
    \/ \E t \in Tasks : Cancel(t)

SpecCancel == Init /\ [][NextCancel]_vars

(***************************************************************************)
(* SpecLive: the tasks of Spec under fair scheduling.  A task that runs an *)
(* operation of the registry is polled until the operation returns; the    *)
(* holder of a handle may lock it or not, but takes a lock it queued for   *)
(* and gives back a lock it holds.                                         *)
(***************************************************************************)
LiveIds == {"a"}
\* a document without a specification
SandboxDocNone == [spec |-> None]
LiveDocs == {SandboxDocNone}

\* task t runs create, delete, get, start, update or stop
InOperation(t) ==
    pc[t] \in {"create_write", "create_insert", "delete_write", "delete_remove",
               "sandbox_read", "sandbox_get", "sandbox_lock", "start", "update", "stop"}

\* a step of the operation that task t runs
OperationStep(t) ==
    \/ CreateWrite(t) \/ CreateInsert(t)
    \/ DeleteWrite(t) \/ DeleteRemove(t)
    \/ SandboxRead(t) \/ SandboxGet(t) \/ SandboxLock(t)
    \/ Start(t) \/ Update(t) \/ Stop(t)
    \/ (InOperation(t) /\ Enqueue(t))

\* a step by which the holder of a handle takes the lock it queued for, or gives it back
HolderStep(t) ==
    \/ (InQueue(t) /\ HandleLock(t))
    \/ HandleUnlock(t)

NextLive ==
    \/ \E t \in Tasks, id \in LiveIds, data \in LiveDocs : CreateCall(t, id, data)
    \/ \E t \in Tasks : CreateWrite(t)
    \/ \E t \in Tasks : CreateInsert(t)
    \/ \E t \in Tasks, id \in LiveIds : DeleteCall(t, id)
    \/ \E t \in Tasks : DeleteWrite(t)
    \/ \E t \in Tasks : DeleteRemove(t)
    \/ \E t \in Tasks, id \in LiveIds : StartCall(t, id)
    \/ \E t \in Tasks, id \in LiveIds, data \in LiveDocs : UpdateCall(t, id, data)
    \/ \E t \in Tasks, id \in LiveIds : StopCall(t, id)
    \/ \E t \in Tasks, id \in LiveIds : GetCall(t, id)
    \/ \E t \in Tasks : SandboxRead(t)
    \/ \E t \in Tasks : SandboxGet(t)
    \/ \E t \in Tasks : SandboxLock(t)
    \/ \E t \in Tasks : Start(t)
    \/ \E t \in Tasks : Update(t)
    \/ \E t \in Tasks : Stop(t)
    \/ \E t \in Tasks : HandleLock(t)
    \/ \E t \in Tasks : HandleUnlock(t)
    \/ \E t \in Tasks : HandleDrop(t)
    \/ \E t \in Tasks : Enqueue(t)

Fairness == \A t \in Tasks : WF_vars(OperationStep(t)) /\ WF_vars(HolderStep(t))

SpecLive == Init /\ [][NextLive]_vars /\ Fairness

(***************************************************************************)
(* Properties.                                                             *)
(***************************************************************************)
\* the step in which task t leaves pc value p and returns to its caller
Returns(t, p) == pc[t] = p /\ pc'[t] = "idle"

\* C1: create on an id that is present fails with AlreadyExists and leaves
\* the existing entry as it is.
C1_CreateExistingFails ==
    [][\A t \in Tasks :
          (Returns(t, "create_insert") /\ registry[op[t].id] # NoRef) =>
              /\ res'[t] = "AlreadyExists"
              /\ registry'[op[t].id] = registry[op[t].id]
              /\ heap'[registry[op[t].id]] = heap[registry[op[t].id]]]_vars

\* C2: once a sandbox has a started_at, no later operation on that sandbox
\* changes it.
C2_StartedAtSetOnce ==
    [][\A r \in Refs :
          (IsSome(heap[r]) /\ IsSome(heap'[r]) /\ IsSome(Sandbox(r).started_at)) =>
              Unwrap(heap'[r]).started_at = Sandbox(r).started_at]_vars

\* C3: however often and by whomever stop is called on a sandbox, its exit
\* signal is fired once at most in total.
C3_ExitSignalFiredOnce ==
    \A r \in Refs : IsSome(heap[r]) => Sandbox(r).exit_signal.fired <= 1


(***************************************************************************)
(* The extraction, read off the sandboxes that create stored.              *)
(***************************************************************************)
\* the value an annotation gives a field: its parsed value, if it is there and parses
AnnF64(annotations, key) ==
    IF key \in DOMAIN annotations THEN parse_f64(annotations[key]) ELSE None
AnnU64(annotations, key) ==
    IF key \in DOMAIN annotations THEN parse_u64(annotations[key]) ELSE None
AnnU32(annotations, key) ==
    IF key \in DOMAIN annotations THEN parse_u32(annotations[key]) ELSE None

Restrict(annotations, keys) == [k \in DOMAIN annotations \cap keys |-> annotations[k]]
WithAnnotations(data, annotations) ==
    [spec |-> Some([Unwrap(data.spec) EXCEPT !.annotations = annotations])]

HasSpec(r) == IsSome(heap[r]) /\ IsSome(Sandbox(r).data.spec)
SpecOf(r) == Unwrap(Sandbox(r).data.spec)
HasLinuxResources(spec) == IsSome(spec.linux) /\ IsSome(Unwrap(spec.linux).resources)

FourKeys ==
    {"resources.limits.cpu", "resources.requests.cpu", "resources.limits.memory",
     "resources.requests.pid"}
FiveKeys ==
    {"resources.limits.cpu", "resources.requests.cpu", "resources.limits.memory",
     "resources.requests.memory", "resources.limits.pid"}

\* C4, as claimed: the annotations consulted are the four keys resources.limits.cpu,
\* resources.requests.cpu, resources.limits.memory and resources.requests.pid; without
\* Linux resources a parsable resources.requests.pid is the pid_limit, and the
\* annotations outside the four change no field, so that memory_request is unset.
C4_FourAnnotationKeys ==
    \A r \in Refs : HasSpec(r) =>
        LET spec == SpecOf(r)
            info == Sandbox(r).resource_info
        IN  /\ ~HasLinuxResources(spec) =>
                   /\ info.cpu_limit = AnnF64(spec.annotations, "resources.limits.cpu")
                   /\ info.cpu_request = AnnF64(spec.annotations, "resources.requests.cpu")
                   /\ info.memory_limit = AnnU64(spec.annotations, "resources.limits.memory")
                   /\ info.pid_limit = AnnU32(spec.annotations, "resources.requests.pid")
            /\ info.memory_request = None
            /\ info = from_sandbox_data(
                          WithAnnotations(Sandbox(r).data, Restrict(spec.annotations, FourKeys)))

\* C4, amended: the annotations consulted are the five keys resources.limits.cpu,
\* resources.requests.cpu, resources.limits.memory, resources.requests.memory and
\* resources.limits.pid; without Linux resources each field is the parsed value of
\* its key (pid_limit that of resources.limits.pid, memory_request that of
\* resources.requests.memory) or unset, and the annotations outside the five,
\* resources.requests.pid among them, change no field.
C4_FiveAnnotationKeys ==
    \A r \in Refs : HasSpec(r) =>
        LET spec == SpecOf(r)
            info == Sandbox(r).resource_info
        IN  /\ ~HasLinuxResources(spec) =>
                   /\ info.cpu_limit = AnnF64(spec.annotations, "resources.limits.cpu")
                   /\ info.cpu_request = AnnF64(spec.annotations, "resources.requests.cpu")
                   /\ info.memory_limit = AnnU64(spec.annotations, "resources.limits.memory")
                   /\ info.memory_request = AnnU64(spec.annotations, "resources.requests.memory")
                   /\ info.pid_limit = AnnU32(spec.annotations, "resources.limits.pid")
            /\ info = from_sandbox_data(
                          WithAnnotations(Sandbox(r).data, Restrict(spec.annotations, FiveKeys)))

\* a sandbox without Linux resources whose pid_limit comes from resources.limits.pid
\* while resources.requests.pid is there as well
C4_Witness ==
    \E r \in Refs :
        /\ HasSpec(r) /\ ~HasLinuxResources(SpecOf(r))
        /\ {"resources.limits.pid", "resources.requests.pid"} \subseteq DOMAIN SpecOf(r).annotations
        /\ SpecOf(r).annotations["resources.requests.pid"] # SpecOf(r).annotations["resources.limits.pid"]
        /\ IsSome(Sandbox(r).resource_info.pid_limit)

\* an i64 and a u64, or a u32, that are the same number
SameNumber64(v, u) == ~I64Neg(v) /\ u = v
SameNumber32(v, u) == ~I64Neg(v) /\ v = u \o LimbZero(Limbs64 - Limbs32)

\* C5: each of cpu_limit, cpu_request, memory_limit and pid_limit is the value of the
\* Linux resources when they supply it (shares / 1024; quota / period when both are
\* there; the memory limit; the PID limit), else the parsable annotation value, else
\* unset.
C5_StructuredOverridesAnnotation ==
    \A r \in Refs : HasSpec(r) =>
        LET spec == SpecOf(r)
            info == Sandbox(r).resource_info
            lres == IF HasLinuxResources(spec) THEN Unwrap(Unwrap(spec.linux).resources)
                   ELSE [cpu |-> None, memory |-> None, pids |-> None]
            cpu == IF IsSome(lres.cpu) THEN Unwrap(lres.cpu)
                   ELSE [shares |-> None, quota |-> None, period |-> None]
            memory == IF IsSome(lres.memory) THEN Unwrap(lres.memory) ELSE [limit |-> None]
        IN  /\ info.cpu_request =
                   IF IsSome(cpu.shares) THEN Some(F64Div(Unwrap(cpu.shares), 1024))
                   ELSE AnnF64(spec.annotations, "resources.requests.cpu")
            /\ info.cpu_limit =
                   IF IsSome(cpu.quota) /\ IsSome(cpu.period)
                   THEN Some(F64Div(Unwrap(cpu.quota), Unwrap(cpu.period)))
                   ELSE AnnF64(spec.annotations, "resources.limits.cpu")
            /\ IF IsSome(memory.limit)
               THEN IsSome(info.memory_limit)
                    /\ SameNumber64(Unwrap(memory.limit), Unwrap(info.memory_limit))
               ELSE info.memory_limit =
                        AnnU64(spec.annotations, "resources.limits.memory")
            /\ IF IsSome(lres.pids)
               THEN IsSome(info.pid_limit)
                    /\ SameNumber32(Unwrap(lres.pids).limit, Unwrap(info.pid_limit))
               ELSE info.pid_limit =
                        AnnU32(spec.annotations, "resources.limits.pid")

(***************************************************************************)
(* Errors, create and delete.                                              *)
(***************************************************************************)
Errors == {"NotFound", "AlreadyExists"}

\* the Sandboxer::sandbox of task t ends in this step
Looked(t) == pc[t] = "sandbox_get" /\ pc'[t] # "sandbox_get"

\* C6: get, start, update and stop of an id that is not in the registry return NotFound,
\* and so do container, update_container and remove_container of a container id that is
\* not in the sandbox; an operation that returns an error changes neither the registry
\* nor any sandbox.
C6_ErrorsLeaveStateUnchanged ==
    /\ [](\A r \in Refs : IsSome(heap[r]) =>
             \A cid \in ContainerIds \ DOMAIN Sandbox(r).containers :
                 /\ container(Sandbox(r), cid) = << "NotFound", Sandbox(r) >>
                 /\ remove_container(Sandbox(r), cid) = << "NotFound", Sandbox(r) >>
                 /\ \A data \in ContainerDocs :
                        update_container(Sandbox(r), cid, data) = << "NotFound", Sandbox(r) >>)
    /\ [][\A t \in Tasks :
             /\ Looked(t) => ((registry[op[t].id] = NoRef) <=> (res'[t] = "NotFound"))
             /\ (res'[t] \in Errors /\ res'[t] # res[t]) =>
                    /\ pc'[t] \in {"idle", "locked"}
                    /\ registry' = registry /\ heap' = heap
                    /\ mutex' = mutex /\ handle' = handle
             /\ (pc[t] = "locked" /\ pc'[t] = "locked" /\ res'[t] \in Errors) =>
                    heap'[handle[t]] = heap[handle[t]]]_vars

\* a container method has returned NotFound on a running sandbox, next to an id that
\* is not in the registry
C6_Witness ==
    \E t \in Tasks :
        /\ pc[t] = "locked" /\ res[t] = "NotFound"
        /\ Sandbox(handle[t]).status = "Running"
        /\ \E id \in SandboxIds : registry[id] = NoRef

\* C7: when create(id, spec) returns Ok, the registry maps id to a sandbox that is
\* Created, has no container, no started_at, an exit signal that has not fired, the
\* given specification and the resource_info extracted from it.
C7_CreatedSandboxIsFresh ==
    [][\A t \in Tasks :
          (Returns(t, "create_insert") /\ res'[t] = "Ok") =>
              LET r == registry'[op[t].id]
                  data == Unwrap(op[t].data)
              IN  /\ r # NoRef /\ IsSome(heap'[r]) /\ mutex'[r] = NoTask
                  /\ Unwrap(heap'[r]).id = op[t].id
                  /\ Unwrap(heap'[r]).status = "Created"
                  /\ DOMAIN Unwrap(heap'[r]).containers = {}
                  /\ Unwrap(heap'[r]).started_at = None
                  /\ Unwrap(heap'[r]).exit_signal = [exited |-> FALSE, fired |-> 0]
                  /\ Unwrap(heap'[r]).data = data
                  /\ Unwrap(heap'[r]).resource_info = from_sandbox_data(data)]_vars

\* create has returned Ok and its sandbox, with its extracted resources, is in the
\* registry next to a sandbox that is no longer as created
C7_Witness ==
    \E t \in Tasks, id, other \in SandboxIds :
        /\ pc[t] = "idle" /\ res[t] = "Ok"
        /\ registry[id] # NoRef /\ registry[other] # NoRef
        /\ Sandbox(registry[id]).status = "Created"
        /\ Sandbox(registry[id]).data = SandboxDocB
        /\ IsSome(Sandbox(registry[id]).resource_info.memory_limit)
        /\ Sandbox(registry[other]).status = "Stopped"

\* C8: delete returns Ok whether the id is there or not; it removes the entry of the id
\* and nothing else, and leaves the registry as it is when the id is not there; an id
\* that is not there is NotFound for get, start, update and stop, and only create
\* brings it back.
C8_DeleteIdempotent ==
    [][/\ \A t \in Tasks :
             /\ Returns(t, "delete_remove") =>
                    /\ res'[t] = "Ok"
                    /\ registry' = [registry EXCEPT ![op[t].id] = NoRef]
                    /\ registry[op[t].id] = NoRef => heap' = heap
                    /\ \A j \in SandboxIds \ {op[t].id} :
                           registry[j] # NoRef => heap'[registry[j]] = heap[registry[j]]
             /\ (Looked(t) /\ registry[op[t].id] = NoRef) =>
                    res'[t] = "NotFound" /\ pc'[t] = "idle"
       /\ \A id \in SandboxIds :
             (registry[id] = NoRef /\ registry'[id] # NoRef) =>
                 \E t \in Tasks : Returns(t, "create_insert") /\ op[t].id = id]_vars

\* delete is about to remove an id that is not in the registry, which has another entry
C8_Witness ==
    \E t \in Tasks, j \in SandboxIds :
        /\ pc[t] = "delete_remove" /\ registry[op[t].id] = NoRef
        /\ registry[j] # NoRef /\ Sandbox(registry[j]).status = "Running"

\* task t has appended its container and given the handle back
AppendReturned(t) == pc[t] = "idle" /\ res[t] = "Ok"

\* C9: the append_container calls of the tasks, each with its own container id on the
\* same sandbox, all succeed, and the container of every task that has returned is in
\* the sandbox: all of them once all have returned.
C9_NoLostAppend ==
    /\ \A t \in Tasks : pc[t] = "locked" => res[t] = "Ok"
    /\ \A t \in Tasks :
           AppendReturned(t) => OwnCid(t) \in DOMAIN Sandbox(registry["a"]).containers

\* every task has returned from its append
C9_Witness ==
    /\ \A t \in Tasks : AppendReturned(t)
    /\ Cardinality(DOMAIN Sandbox(registry["a"]).containers) = NumTasks

HoldsRegistry(t) == writer = t \/ t \in readers
HoldsSandbox(t) == \E r \in Refs : mutex[r] = t

\* C10: no task holds the registry's lock and the Mutex of a sandbox at the same time.
C10_NeverBothLocks ==
    \A t \in Tasks : ~(HoldsRegistry(t) /\ HoldsSandbox(t))

\* a task in start holds the Mutex of a sandbox while another holds the registry's lock
C10_Witness ==
    \E t, u \in Tasks :
        /\ pc[t] \in {"start", "update", "stop"} /\ HoldsSandbox(t)
        /\ HoldsRegistry(u)

\* task t waits for a lock
Waits(t) == InQueue(t) \/ pc[t] \in WaitPcs \ {"have_handle"}

\* no task waits for a lock while it holds one, so that no wait is for a waiting task
NoLockDeadlock ==
    \A t \in Tasks : Waits(t) => writer # t /\ t \notin readers /\ \A r \in Refs : mutex[r] # t

\* C11: under fair scheduling and first come first served locks, with holders of a
\* handle that give its lock back, every create, delete, get, start, update and stop
\* that was called returns, and no state is a deadlock of lock waits.
C11_OperationsReturn ==
    /\ []NoLockDeadlock
    /\ \A t \in Tasks : InOperation(t) ~> ~InOperation(t)

\* an operation is queued for the Mutex of a sandbox that the holder of a handle has locked
C11_Witness ==
    \E t, u \in Tasks :
        /\ pc[t] = "sandbox_lock" /\ InQueue(t)
        /\ pc[u] = "locked" /\ mutex[handle[t]] = u

\* task t holds no lock and is in no queue
HoldsNothing(t) ==
    /\ writer # t /\ t \notin readers
    /\ \A r \in Refs : mutex[r] # t
    /\ ~InQueue(t)

\* the registry and the sandboxes stay as they are, but for a sandbox that is freed
SandboxesUnchanged ==
    /\ registry' = registry
    /\ \A r \in Refs : IsSome(heap'[r]) => heap'[r] = heap[r]
    /\ \A i \in SandboxIds : registry[i] # NoRef => heap'[registry[i]] = heap[registry[i]]

\* C12: a task that is suspended in an operation holds no lock, and no step of its
\* operation up to there has changed the registry or a sandbox; when the operation is
\* cancelled there, the task holds no lock, no handle and no place in a queue, and the
\* registry and every sandbox are as they were: as before the operation, had it run
\* alone.
C12_CancelLeavesNoTrace ==
    /\ [](\A t \in Tasks :
             pc[t] \in SuspendPcs =>
                 writer # t /\ t \notin readers /\ \A r \in Refs : mutex[r] # t)
    /\ [][\A t \in Tasks :
             /\ (pc'[t] \in SuspendPcs \cup {"sandbox_get"}
                    /\ (pc'[t] # pc[t] \/ InQueue(t)' # InQueue(t))) => SandboxesUnchanged
             /\ (pc[t] \in SuspendPcs /\ res'[t] = "Cancelled") =>
                    /\ SandboxesUnchanged
                    /\ HoldsNothing(t)' /\ handle'[t] = NoRef
                    /\ mutex' = mutex /\ readers' = readers /\ writer' = writer]_vars

\* an operation that was queued for the Mutex of a sandbox has been cancelled while
\* another task holds that Mutex
C12_Witness ==
    \E t, u \in Tasks :
        /\ pc[t] = "idle" /\ res[t] = "Cancelled"
        /\ pc[u] \in {"start", "update", "stop", "locked"}
        /\ registry["a"] # NoRef /\ mutex[registry["a"]] = u

\* C13: when update(id, new_spec) returns Ok, the sandbox has new_spec as its
\* specification and the extraction of new_spec as its resource_info, with every field
\* unset that new_spec does not give, and its status, started_at, containers and exit
\* signal are as before.
C13_UpdateReplaces ==
    [][\A t \in Tasks :
          (Returns(t, "update") /\ res'[t] = "Ok") =>
              LET r == handle[t]
                  new == Unwrap(op[t].data)
                  old == Sandbox(r)
              IN  IsSome(heap'[r]) =>
                      /\ Unwrap(heap'[r]).data = new
                      /\ Unwrap(heap'[r]).resource_info = from_sandbox_data(new)
                      /\ \A f \in DOMAIN ResourceInfoDefault :
                             from_sandbox_data(new)[f] = None =>
                                 Unwrap(heap'[r]).resource_info[f] = None
                      /\ Unwrap(heap'[r]).id = old.id
                      /\ Unwrap(heap'[r]).status = old.status
                      /\ Unwrap(heap'[r]).started_at = old.started_at
                      /\ Unwrap(heap'[r]).containers = old.containers
                      /\ Unwrap(heap'[r]).exit_signal = old.exit_signal]_vars

\* update is about to replace the document of a running sandbox that has a container
\* by a document that lacks a field the old resource_info has
C13_Witness ==
    \E t \in Tasks :
        /\ pc[t] = "update"
        /\ Sandbox(handle[t]).status = "Running"
        /\ DOMAIN Sandbox(handle[t]).containers # {}
        /\ \E f \in DOMAIN ResourceInfoDefault :
               /\ IsSome(Sandbox(handle[t]).resource_info[f])
               /\ from_sandbox_data(Unwrap(op[t].data))[f] = None

\* C14: the resource_info of every sandbox is the extraction of the sandbox's stored
\* specification, and the resource_info of every stored container, which is what
\* get_container hands out, is the container extraction of that container's stored
\* specification.
C14_ResourceInfoDerived ==
    \A r \in Refs : IsSome(heap[r]) =>
        /\ Sandbox(r).resource_info = from_sandbox_data(Sandbox(r).data)
        /\ \A cid \in DOMAIN Sandbox(r).containers :
               /\ Sandbox(r).containers[cid].resource_info =
                      from_container_data(Sandbox(r).containers[cid].data)
               /\ container(Sandbox(r), cid) = << "Ok", Sandbox(r) >>

\* a container method has returned Ok on a sandbox whose document gives resources and
\* that has a container whose document gives a PID limit
C14_Witness ==
    \E t \in Tasks :
        /\ pc[t] = "locked" /\ res[t] = "Ok"
        /\ Sandbox(handle[t]).data = SandboxDocB
        /\ \E cid \in DOMAIN Sandbox(handle[t]).containers :
               /\ Sandbox(handle[t]).containers[cid].data = ContainerDocB
               /\ IsSome(Sandbox(handle[t]).containers[cid].resource_info.pid_limit)

\* the containers of the sandbox that task t has locked, before and after a step
ContainersOf(t) == Sandbox(handle[t]).containers
ContainersAfter(t) == Unwrap(heap'[handle[t]]).containers

\* C15: a remove_container that returns Ok takes one container id out of the sandbox
\* and leaves every other container as it is; an id that is not in the sandbox is
\* NotFound for get_container, update_container and remove_container, which change
\* nothing, and only append_container brings it back.
C15_RemovedStaysRemoved ==
    /\ [](\A r \in Refs, cid \in ContainerIds :
             (IsSome(heap[r]) /\ cid \notin DOMAIN Sandbox(r).containers) =>
                 /\ container(Sandbox(r), cid)[1] = "NotFound"
                 /\ remove_container(Sandbox(r), cid) = << "NotFound", Sandbox(r) >>
                 /\ \A data \in ContainerDocs :
                        /\ update_container(Sandbox(r), cid, data) = << "NotFound", Sandbox(r) >>
                        /\ cid \in DOMAIN append_container(Sandbox(r), cid, data)[2].containers)
    /\ [][\A t \in Tasks : (pc[t] = "locked" /\ pc'[t] = "locked") =>
             /\ \A cid \in DOMAIN ContainersOf(t) \ DOMAIN ContainersAfter(t) :
                    /\ res'[t] = "Ok"
                    /\ ContainersAfter(t) = MapRemove(ContainersOf(t), cid)
                    /\ \A c \in DOMAIN ContainersOf(t) \ {cid} :
                           /\ c \in DOMAIN ContainersAfter(t)
                           /\ ContainersAfter(t)[c] = ContainersOf(t)[c]
             /\ \A cid \in DOMAIN ContainersAfter(t) \ DOMAIN ContainersOf(t) :
                    \E data \in ContainerDocs :
                        heap'[handle[t]] =
                            Some(append_container(Sandbox(handle[t]), cid, data)[2])]_vars

\* c1 has been removed from a sandbox that still has c2, and a container method has
\* then returned NotFound
C15_Witness ==
    \E t \in Tasks :
        /\ pc[t] = "locked" /\ res[t] = "NotFound"
        /\ DOMAIN ContainersOf(t) = {"c2"}
        /\ ContainersOf(t)["c2"] = NewContainer(ContainerDocB)

\* C16: append_container on a container id that the locked sandbox has returns
\* AlreadyExists and leaves the sandbox, with the container of that id, as it is.
C16_AppendExistingFails ==
    \A t \in Tasks : pc[t] = "locked" =>
        \A cid \in DOMAIN ContainersOf(t), data \in ContainerDocs :
            append_container(Sandbox(handle[t]), cid, data) =
                << "AlreadyExists", Sandbox(handle[t]) >>

(***************************************************************************)
(* The extraction, read off the sandboxes and containers of SpecDocuments. *)
(***************************************************************************)
\* the sandboxes there are, and the containers of each
Live == {r \in Refs : IsSome(heap[r])}
Cids(r) == DOMAIN Sandbox(r).containers
Container(r, cid) == Sandbox(r).containers[cid]

\* C17: storage_limit and network_bandwidth are unset in the resource_info of every
\* sandbox and of every container, whatever the documents are.
C17_ReservedFieldsUnset ==
    \A r \in Live :
        /\ Sandbox(r).resource_info.storage_limit = None
        /\ Sandbox(r).resource_info.network_bandwidth = None
        /\ \A cid \in Cids(r) :
               /\ Container(r, cid).resource_info.storage_limit = None
               /\ Container(r, cid).resource_info.network_bandwidth = None

\* a sandbox and its container, from a document with two resource annotations and a
\* memory and PID limit in its Linux resources
C17_Witness ==
    \E r \in Live :
        /\ HasSpec(r) /\ HasLinuxResources(SpecOf(r))
        /\ Cardinality(DOMAIN SpecOf(r).annotations \cap FiveKeys) = MaxAnnotations
        /\ IsSome(Sandbox(r).resource_info.memory_limit)
        /\ IsSome(Sandbox(r).resource_info.pid_limit)
        /\ \E cid \in Cids(r) :
               /\ Container(r, cid).data = Sandbox(r).data
               /\ IsSome(Container(r, cid).resource_info.memory_limit)

\* a document without its annotations
WithoutAnnotations(data) ==
    IF IsSome(data.spec) THEN WithAnnotations(data, NoAnnotations) ELSE data

\* C18: the resource_info of a container is what the sandbox extraction gives for the
\* container's document without its annotations, and what the container extraction
\* gives for it: it is the Linux-resources step alone, and no annotation matters.
C18_ContainerLinuxOnly ==
    \A r \in Live : \A cid \in Cids(r) :
        /\ Container(r, cid).resource_info =
               from_sandbox_data(WithoutAnnotations(Container(r, cid).data))
        /\ Container(r, cid).resource_info =
               from_container_data(WithoutAnnotations(Container(r, cid).data))
        /\ (IsSome(Container(r, cid).data.spec)
               /\ ~HasLinuxResources(Unwrap(Container(r, cid).data.spec))) =>
                   Container(r, cid).resource_info = ResourceInfoDefault

\* a container whose document has an annotation that gives the sandbox of the same
\* document a cpu_limit, and gives the container none
C18_Witness ==
    \E r \in Live : \E cid \in Cids(r) :
        /\ Container(r, cid).data = Sandbox(r).data
        /\ IsSome(Sandbox(r).resource_info.cpu_limit)
        /\ IsSome(Sandbox(r).resource_info.memory_request)
        /\ Container(r, cid).resource_info.cpu_limit = None
        /\ Container(r, cid).resource_info.memory_request = None
        /\ IsSome(Container(r, cid).resource_info.pid_limit)

\* the resources of a specification, without those that are not there
LinuxOf(spec) ==
    IF HasLinuxResources(spec) THEN Unwrap(Unwrap(spec.linux).resources)
    ELSE [cpu |-> None, memory |-> None, pids |-> None]
GivesCpuLimit(spec) ==
    /\ IsSome(LinuxOf(spec).cpu)
    /\ IsSome(Unwrap(LinuxOf(spec).cpu).quota) /\ IsSome(Unwrap(LinuxOf(spec).cpu).period)
GivesCpuRequest(spec) ==
    IsSome(LinuxOf(spec).cpu) /\ IsSome(Unwrap(LinuxOf(spec).cpu).shares)
GivesMemoryLimit(spec) ==
    IsSome(LinuxOf(spec).memory) /\ IsSome(Unwrap(LinuxOf(spec).memory).limit)
GivesPidLimit(spec) == IsSome(LinuxOf(spec).pids)

\* the annotation of this key is not there, or does not parse
NoF64(spec, key) == AnnF64(spec.annotations, key) = None
NoU64(spec, key) == AnnU64(spec.annotations, key) = None
NoU32(spec, key) == AnnU32(spec.annotations, key) = None

\* C19: the extraction gives a ResourceInfo for every document: all seven fields unset
\* when the document has no specification, and a field unset when its annotation does
\* not parse and the Linux resources do not give it; create, update, append_container
\* and update_container of a container that is there return Ok whatever the document.
C19_ExtractorNeverFails ==
    /\ [](\A r \in Live :
             /\ ~HasSpec(r) => Sandbox(r).resource_info = ResourceInfoDefault
             /\ HasSpec(r) =>
                    LET spec == SpecOf(r)
                        info == Sandbox(r).resource_info
                    IN  /\ (NoF64(spec, "resources.limits.cpu") /\ ~GivesCpuLimit(spec)) =>
                               info.cpu_limit = None
                        /\ (NoF64(spec, "resources.requests.cpu") /\ ~GivesCpuRequest(spec)) =>
                               info.cpu_request = None
                        /\ (NoU64(spec, "resources.limits.memory") /\ ~GivesMemoryLimit(spec)) =>
                               info.memory_limit = None
                        /\ NoU64(spec, "resources.requests.memory") => info.memory_request = None
                        /\ (NoU32(spec, "resources.limits.pid") /\ ~GivesPidLimit(spec)) =>
                               info.pid_limit = None
             /\ \A cid \in Cids(r) :
                    /\ ~IsSome(Container(r, cid).data.spec) =>
                           Container(r, cid).resource_info = ResourceInfoDefault
                    /\ \A data \in DocsInUse :
                           /\ append_container(Sandbox(r), cid, data)[1] = "Ok"
                           /\ update_container(Sandbox(r), cid, data)[1] = "Ok")
    /\ [][\A t \in Tasks :
             /\ Returns(t, "create_insert") => res'[t] = "Ok"
             /\ Returns(t, "update") => res'[t] = "Ok"
             /\ (pc[t] = "locked" /\ pc'[t] = "locked" /\ Cids(handle[t]) # {}) =>
                    res'[t] = "Ok"]_vars

\* a sandbox and its container from a document whose CPU limit annotation does not
\* parse, and whose Linux resources give a memory limit and no CPU limit
C19_Witness ==
    \E r \in Live :
        /\ HasSpec(r)
        /\ "resources.limits.cpu" \in DOMAIN SpecOf(r).annotations
        /\ NoF64(SpecOf(r), "resources.limits.cpu")
        /\ GivesMemoryLimit(SpecOf(r)) /\ ~GivesCpuLimit(SpecOf(r))
        /\ Sandbox(r).resource_info.cpu_limit = None
        /\ \E cid \in Cids(r) : Container(r, cid).data = Sandbox(r).data

\* C20: a sandbox that is Stopped stays Stopped as long as it lives, whatever start,
\* update, stop or container method is called on it, so that a sandbox whose exit
\* signal has fired is Stopped.
C20_StoppedStaysStopped ==
    /\ [](\A r \in Refs :
             (IsSome(heap[r]) /\ Sandbox(r).exit_signal.exited) => Sandbox(r).status = "Stopped")
    /\ [][\A r \in Refs :
             (IsSome(heap[r]) /\ IsSome(heap'[r]) /\ Sandbox(r).status = "Stopped"
                 /\ Unwrap(heap'[r]).exit_signal.exited) =>
                 Unwrap(heap'[r]).status = "Stopped"]_vars

\* C21: when start, update or stop of an id returns Ok, the sandbox it has changed is
\* the one the registry maps the id to at that moment, and a sandbox that the holder
\* of a handle changes is the one the registry maps its id to: no operation succeeds
\* on an entry that delete has removed or create has replaced.
C21_NoUpdateOnOrphan ==
    [][\A t \in Tasks :
          /\ ((Returns(t, "start") \/ Returns(t, "update") \/ Returns(t, "stop"))
                 /\ res'[t] = "Ok") =>
                 registry[op[t].id] = handle[t]
          /\ (pc[t] = "locked" /\ pc'[t] = "locked" /\ res'[t] = "Ok"
                 /\ heap'[handle[t]] # heap[handle[t]]) =>
                 registry[Sandbox(handle[t]).id] = handle[t]]_vars

\* the memory_limit and pid_limit of info are the numbers that the Linux resources of
\* the document give
LimitsAsGiven(data, info) ==
    IsSome(data.spec) =>
        LET spec == Unwrap(data.spec)
        IN  /\ GivesMemoryLimit(spec) =>
                   /\ IsSome(info.memory_limit)
                   /\ SameNumber64(Unwrap(Unwrap(LinuxOf(spec).memory).limit),
                                   Unwrap(info.memory_limit))
            /\ GivesPidLimit(spec) =>
                   /\ IsSome(info.pid_limit)
                   /\ SameNumber32(Unwrap(LinuxOf(spec).pids).limit, Unwrap(info.pid_limit))

\* C22: the memory_limit and the pid_limit of every sandbox and of every container
\* are numerically the memory limit and the PID limit of the Linux resources of its
\* document, for every signed 64-bit value: the conversion changes no value.
C22_LimitsKeepTheirValue ==
    \A r \in Live :
        /\ LimitsAsGiven(Sandbox(r).data, Sandbox(r).resource_info)
        /\ \A cid \in Cids(r) :
               LimitsAsGiven(Container(r, cid).data, Container(r, cid).resource_info)

\* every sandbox but the one behind r is as it was
OthersUnchanged(r) == \A q \in Refs \ {r} : heap'[q] = heap[q]

\* C23: start, update and stop of an id, and append_container, update_container and
\* remove_container on a locked sandbox, change no other sandbox in any field, and
\* delete of an id leaves every other id with its sandbox as it is; a container id that
\* two sandboxes have is changed in the one the operation is on only.
C23_OtherSandboxesUntouched ==
    [][\A t \in Tasks :
          /\ (Returns(t, "start") \/ Returns(t, "update") \/ Returns(t, "stop")) =>
                 registry' = registry /\ OthersUnchanged(handle[t])
          /\ (pc[t] = "locked" /\ pc'[t] = "locked") =>
                 registry' = registry /\ OthersUnchanged(handle[t])
          /\ Returns(t, "delete_remove") =>
                 \A j \in SandboxIds \ {op[t].id} :
                     /\ registry'[j] = registry[j]
                     /\ registry[j] # NoRef => heap'[registry[j]] = heap[registry[j]]]_vars

\* a container method has returned Ok on a sandbox that has c1, while the other
\* sandbox, in another status, has a c1 of its own with another document
C23_Witness ==
    \E t \in Tasks, j \in SandboxIds :
        /\ pc[t] = "locked" /\ res[t] = "Ok"
        /\ registry[j] # NoRef /\ registry[j] # handle[t]
        /\ "c1" \in Cids(handle[t]) /\ "c1" \in Cids(registry[j])
        /\ Container(handle[t], "c1") # Container(registry[j], "c1")
        /\ Sandbox(handle[t]).status # Sandbox(registry[j]).status

====
